---- MODULE Spec2Model ----
(***************************************************************************)
(* Model of src/setup.js of paypal-checkout: the bootstrapper that maps    *)
(* the page origin to an environment, locates the script tag that loaded   *)
(* it, configures the process-wide config record, runs the run-once        *)
(* initializer and reports unhandled promise rejections.                   *)
(*                                                                         *)
(* JavaScript values are modelled as follows.  Strings that the code only  *)
(* compares are TLA+ strings.  undefined/null is None.  The booleans that  *)
(* share a field with strings are the tokens BoolTrue / BoolFalse.  A URL  *)
(* is the sequence of its pieces, "https" ":" being the piece "https",     *)
(* so that the string operations of getCurrentScript act on its pieces.    *)
(***************************************************************************)
EXTENDS Integers, Sequences, FiniteSets, TLC

\* ------------------------------------------------------------------ bounds
MaxCalls == 2        \* host calls of setup()/init() after load, re-entrant ones included
MaxScripts == 2      \* script elements in the document
MaxEnvs == 3         \* entries of config.paypalUrls in the resolver specification
MaxFailures == 2     \* failures delivered to the unhandled-rejection handler

\* ------------------------------------------------------- JavaScript values
None == "<undefined>"
BoolTrue == "<true>"
BoolFalse == "<false>"

\* JavaScript truthiness of the values used here: if (v) ...
Truthy(v) == v \notin {None, "", BoolFalse}

\* ------------------------------------------------------------- variables
VARIABLES
    location,        \* window.location: [scheme, host]; location.protocol is scheme followed by ":"
    paypalUrls,      \* config.paypalUrls in key order: sequence of <<env, domain>>
    scripts,         \* document.getElementsByTagName('script'), in document order
    docCurrentScript,\* document.currentScript is set (TRUE) or null (FALSE)
    page,            \* results of isEligible, isPayPalDomain, getDomainSetting('force_bridge'), bridge
    config,          \* the process-wide config record
    logLevel,        \* the level last applied by setLogLevel
    setLogLevelCalls,\* number of setLogLevel calls made
    called,          \* the flag of once() around the initializer
    currentScript,   \* result of getCurrentScript(): index into scripts, 0 for no value
    pc,              \* position of the running code
    ret,             \* where the running initializer returns to
    logs,            \* calls made to $logger and to the initializer's collaborators, in order
    calls,           \* host calls made after load
    last,            \* the last call of setup/init: which, its options, whether it threw,
                     \* and whether the call before it threw
    console,         \* shape of window.console
    pending,         \* number of flush promises not yet settled
    rejected,        \* the flush rejections the catch handler has run for: [err2, fallback]
    timers,          \* callbacks scheduled by setTimeout
    uncaught,        \* errors thrown out of timer callbacks
    failures         \* failures delivered to the unhandled-rejection handler

vars == <<location, paypalUrls, scripts, docCurrentScript, page, config, logLevel,
          setLogLevelCalls, called, currentScript, pc, ret, logs, calls, last,
          console, pending, rejected, timers, uncaught, failures>>

pageVars == <<location, paypalUrls, scripts, docCurrentScript, page>>
reporterVars == <<console, pending, rejected, timers, uncaught, failures>>

\* ------------------------------------------------------------ config.js
\* config.scriptUrl, protocol-relative, as pieces
scriptUrl == <<"//www.paypalobjects.com/api/", "checkout.js">>

\* the legacy file name getCurrentScript looks for
LegacyName == "paypal.checkout.v4.js"

\* the config record before this file touches it
DefaultConfig ==
    [env |-> "production", stage |-> "msmaster", apiStage |-> "msmaster",
     state |-> "checkoutjs", ppobjects |-> BoolFalse, logLevel |-> "warn"]

\* config.paypalUrls[env]: the domain of env, undefined when env is no key
Lookup(urls, env) ==
    IF \E i \in 1..Len(urls) : urls[i][1] = env
    THEN urls[CHOOSE i \in 1..Len(urls) : urls[i][1] = env][2]
    ELSE None

\* ------------------------------------------------ environment resolver
RECURSIVE domainToEnvFrom(_, _, _)
domainToEnvFrom(urls, domain, i) ==
    IF i > Len(urls) THEN None
    ELSE IF urls[i][2] = domain THEN urls[i][1]
    ELSE domainToEnvFrom(urls, domain, i + 1)

\* the first env, in key order, whose url is the domain
domainToEnv(domain) == domainToEnvFrom(paypalUrls, domain, 1)

\* setDomainEnv without the exclusion of 'test'
setDomainEnv_noTestGuard(domain) ==
    LET currentDomainEnv == domainToEnv(domain)
    IN  IF Truthy(currentDomainEnv)
        THEN [config EXCEPT !.env = currentDomainEnv]
        ELSE config

\* the config after setDomainEnv(domain)
setDomainEnv(domain) ==
    LET currentDomainEnv == domainToEnv(domain)
    IN  IF Truthy(currentDomainEnv) /\ currentDomainEnv # "test"
        THEN [config EXCEPT !.env = currentDomainEnv]
        ELSE config

\* `${window.location.protocol}//${window.location.host}`
Origin == location.scheme \o ":" \o "//" \o location.host

\* window.location.protocol.split(':')[0]
currentProtocol == location.scheme

\* ------------------------------------------------------ script-tag locator
\* src.replace(/^https?:/, ''): only a leading http: or https: is removed
stripProtocol(src) ==
    IF Len(src) > 0 /\ src[1] \in {"http", "https"} THEN Tail(src) ELSE src

\* str.split('?')[0]: what precedes the first "?"
RECURSIVE beforeQuery(_)
beforeQuery(str) ==
    IF Len(str) = 0 \/ str[1] = "?" THEN <<>>
    ELSE <<str[1]>> \o beforeQuery(Tail(str))

\* str.indexOf(name) !== -1
contains(str, name) == \E i \in 1..Len(str) : str[i] = name

\* the first condition with && binding looser than ||
matchesUrlOrMarker_srcRequired(script) ==
    /\ Len(script.src) > 0
    /\ \/ beforeQuery(stripProtocol(script.src)) = scriptUrl
       \/ script.marker

\* the condition of the first if of the loop body
matchesUrlOrMarker(script) ==
    \/ (Len(script.src) > 0 /\ beforeQuery(stripProtocol(script.src)) = scriptUrl)
    \/ script.marker

\* the condition of the second if of the loop body
matchesLegacy(script) ==
    Len(script.src) > 0 /\ contains(script.src, LegacyName)

RECURSIVE scanScripts(_, _)
scanScripts(list, i) ==
    IF i > Len(list) THEN 0
    ELSE IF matchesUrlOrMarker(list[i]) THEN i
    ELSE IF matchesLegacy(list[i]) THEN i
    ELSE scanScripts(list, i + 1)

\* a call of $logger or of a collaborator, as recorded in logs
Event(level, event, arg) == [level |-> level, event |-> event, arg |-> arg]

\* getCurrentScript that logs without looking at document.currentScript
getCurrentScript_alwaysLogs ==
    LET found == scanScripts(scripts, 1)
    IN  [result |-> found,
         logged |-> IF found = 0
                    THEN <<Event("debug", "current_script_not_recognized", "")>>
                    ELSE <<>>]

\* getCurrentScript(): the script found (0 for none) and what it logs
getCurrentScript ==
    LET found == scanScripts(scripts, 1)
    IN  [result |-> found,
         logged |-> IF found = 0 /\ docCurrentScript
                    THEN <<Event("debug", "current_script_not_recognized", "")>>
                    ELSE <<>>]

\* -------------------------------------------------- configuration builder
\* configure that validates env but does not write it
configure_keepsEnv(options) ==
    IF Truthy(options.env) /\ ~Truthy(Lookup(paypalUrls, options.env))
    THEN [threw |-> TRUE, config |-> config, level |-> None]
    ELSE
      LET c2 == IF Truthy(options.stage) THEN [config EXCEPT !.stage = options.stage] ELSE config
          c3 == IF Truthy(options.apiStage) THEN [c2 EXCEPT !.apiStage = options.apiStage] ELSE c2
          c4 == IF Truthy(options.state) THEN [c3 EXCEPT !.state = options.state] ELSE c3
          c5 == IF Truthy(options.ppobjects) THEN [c4 EXCEPT !.ppobjects = BoolTrue] ELSE c4
      IN  [threw |-> FALSE, config |-> c5,
           level |-> IF Truthy(options.logLevel) THEN options.logLevel ELSE c5.logLevel]

\* configure without the check of env against config.paypalUrls
configure_unchecked(options) ==
    LET c1 == IF Truthy(options.env) THEN [config EXCEPT !.env = options.env] ELSE config
        c2 == IF Truthy(options.stage) THEN [c1 EXCEPT !.stage = options.stage] ELSE c1
        c3 == IF Truthy(options.apiStage) THEN [c2 EXCEPT !.apiStage = options.apiStage] ELSE c2
        c4 == IF Truthy(options.state) THEN [c3 EXCEPT !.state = options.state] ELSE c3
        c5 == IF Truthy(options.ppobjects) THEN [c4 EXCEPT !.ppobjects = BoolTrue] ELSE c4
    IN  [threw |-> FALSE, config |-> c5,
         level |-> IF Truthy(options.logLevel) THEN options.logLevel ELSE c5.logLevel]

\* configure that writes config.env before it checks env
configure_assignFirst(options) ==
    IF Truthy(options.env) /\ ~Truthy(Lookup(paypalUrls, options.env))
    THEN [threw |-> TRUE, config |-> [config EXCEPT !.env = options.env], level |-> None]
    ELSE configure_unchecked(options)

\* configure whose apiStage block writes config.stage
configure_apiStageIntoStage(options) ==
    IF Truthy(options.env) /\ ~Truthy(Lookup(paypalUrls, options.env))
    THEN [threw |-> TRUE, config |-> config, level |-> None]
    ELSE
      LET c1 == IF Truthy(options.env) THEN [config EXCEPT !.env = options.env] ELSE config
          c2 == IF Truthy(options.stage) THEN [c1 EXCEPT !.stage = options.stage] ELSE c1
          c3 == IF Truthy(options.apiStage) THEN [c2 EXCEPT !.stage = options.apiStage] ELSE c2
          c4 == IF Truthy(options.state) THEN [c3 EXCEPT !.state = options.state] ELSE c3
          c5 == IF Truthy(options.ppobjects) THEN [c4 EXCEPT !.ppobjects = BoolTrue] ELSE c4
      IN  [threw |-> FALSE, config |-> c5,
           level |-> IF Truthy(options.logLevel) THEN options.logLevel ELSE c5.logLevel]

\* configure(options): whether it throws `Invalid env`, the config it leaves,
\* and the level it passes to setLogLevel (None when it does not get there)
configure(options) ==
    IF Truthy(options.env) /\ ~Truthy(Lookup(paypalUrls, options.env))
    THEN [threw |-> TRUE, config |-> config, level |-> None]
    ELSE
      LET c1 == IF Truthy(options.env) THEN [config EXCEPT !.env = options.env] ELSE config
          c2 == IF Truthy(options.stage) THEN [c1 EXCEPT !.stage = options.stage] ELSE c1
          c3 == IF Truthy(options.apiStage) THEN [c2 EXCEPT !.apiStage = options.apiStage] ELSE c2
          c4 == IF Truthy(options.state) THEN [c3 EXCEPT !.state = options.state] ELSE c3
          c5 == IF Truthy(options.ppobjects) THEN [c4 EXCEPT !.ppobjects = BoolTrue] ELSE c4
      IN  [threw |-> FALSE, config |-> c5,
           level |-> IF Truthy(options.logLevel) THEN options.logLevel ELSE c5.logLevel]

\* the options record of a call that passes no options: every field undefined
NoOptions ==
    [env |-> None, stage |-> None, apiStage |-> None, state |-> None,
     ppobjects |-> None, logLevel |-> None]

\* ---------------------------------------------------- run-once initializer
\* once(method): the wrapper sets its flag and then calls method, and does
\* nothing when the flag is already set
once(flag) == [run |-> ~flag, flag |-> TRUE]

\* positions inside the body of the initializer, in order
InitBody == <<"init_eligible", "init_common", "init_pptm", "init_logger",
              "init_bridge", "init_info", "init_debug">>

InitPcs == {InitBody[i] : i \in 1..Len(InitBody)}

\* init without once(): every call runs the body
init_unguarded(back) ==
    /\ called' = TRUE
    /\ pc' = InitBody[1]
    /\ ret' = back

\* init(): a call of the wrapped initializer that returns to `back`
init(back) ==
    LET gate == once(called)
    IN  /\ called' = gate.flag
        /\ IF gate.run
           THEN pc' = InitBody[1] /\ ret' = back
           ELSE pc' = back /\ ret' = ret

\* setLogLevel(level) of ./lib: the logger's level becomes level
setLogLevel(level) ==
    /\ logLevel' = level
    /\ setLogLevelCalls' = setLogLevelCalls + 1

\* setup(options): configure(options), then init(); an error thrown by
\* configure leaves setup before init() and ends the running code
setup(options, back) ==
    LET r == configure(options)
    IN  /\ config' = r.config
        /\ last' = [op |-> "setup", options |-> options, threw |-> r.threw,
                     prevThrew |-> last.threw]
        /\ IF r.threw
           THEN /\ UNCHANGED <<logLevel, setLogLevelCalls, called, ret>>
                /\ pc' = "idle"
           ELSE /\ setLogLevel(r.level)
                /\ init(back)

\* the position after p in the body of the initializer, ret after the last
AfterInit(p) ==
    LET i == CHOOSE k \in 1..Len(InitBody) : InitBody[k] = p
    IN  IF i < Len(InitBody) THEN InitBody[i + 1] ELSE ret

\* one statement of the body: what it logs or calls
InitStep(p, emitted) ==
    /\ pc = p
    /\ logs' = logs \o emitted
    /\ pc' = AfterInit(p)
    /\ UNCHANGED <<pageVars, reporterVars, config, logLevel, setLogLevelCalls,
                   called, currentScript, ret, calls, last>>

\* if (!isEligible()) $logger.warn('ineligible')
InitEligible ==
    InitStep("init_eligible",
             IF ~page.eligible THEN <<Event("warn", "ineligible", "")>> ELSE <<>>)

\* checkForCommonErrors()
InitCommon ==
    InitStep("init_common", <<Event("call", "checkForCommonErrors", "")>>)

\* if (!isPayPalDomain()) createPptmScript()
InitPptm ==
    InitStep("init_pptm",
             IF ~page.paypalDomain THEN <<Event("call", "createPptmScript", "")>> ELSE <<>>)

\* initLogger()
InitLogger ==
    InitStep("init_logger", <<Event("call", "initLogger", "")>>)

\* if (force_bridge && bridge && !isPayPalDomain()) bridge.openBridge(... config.env ...)
InitBridge ==
    InitStep("init_bridge",
             IF page.forceBridge /\ page.bridge /\ ~page.paypalDomain
             THEN <<Event("call", "openBridge", config.env)>> ELSE <<>>)

\* $logger.info(`setup_${config.env}`)
InitInfo ==
    InitStep("init_info", <<Event("info", "setup_" \o config.env, config.env)>>)

\* $logger.debug(`current_protocol_${currentProtocol}`)
InitDebug ==
    InitStep("init_debug",
             <<Event("debug", "current_protocol_" \o currentProtocol, currentProtocol)>>)

\* ------------------------------------------------------------- module load
\* setDomainEnv(`${window.location.protocol}//${window.location.host}`)
LoadSetDomainEnv ==
    /\ pc = "setDomainEnv"
    /\ config' = setDomainEnv(Origin)
    /\ pc' = "getCurrentScript"
    /\ UNCHANGED <<pageVars, reporterVars, logLevel, setLogLevelCalls, called,
                   currentScript, ret, logs, calls, last>>

\* let currentScript = getCurrentScript()
LoadGetCurrentScript ==
    /\ pc = "getCurrentScript"
    /\ currentScript' = getCurrentScript.result
    /\ logs' = logs \o getCurrentScript.logged
    /\ pc' = "loadBranch"
    /\ UNCHANGED <<pageVars, reporterVars, config, logLevel, setLogLevelCalls,
                   called, ret, calls, last>>

\* the options setup is given when the script tag was found
ScriptOptions(script) ==
    [env |-> script.env, stage |-> script.stage, apiStage |-> script.apiStage,
     state |-> script.state, logLevel |-> script.logLevel, ppobjects |-> BoolTrue]

\* if (currentScript) { setup({...}) ...
LoadWithScript ==
    /\ pc = "loadBranch"
    /\ currentScript # 0
    /\ setup(ScriptOptions(scripts[currentScript]), "loadTail")
    /\ UNCHANGED <<pageVars, reporterVars, currentScript, logs, calls>>

\* currentScript.src.split(':')[0]
scriptProtocol(src) == IF Len(src) > 0 THEN src[1] ELSE ""

\* ... the telemetry that follows setup({...}) }
LoadTail ==
    /\ pc = "loadTail"
    /\ \E loadTime \in {0, 1500} :
         LET proto == scriptProtocol(scripts[currentScript].src)
         IN  logs' = logs \o
               <<Event("debug", "current_script_protocol_" \o proto, proto),
                 Event("debug", "current_script_protocol_" \o
                        (IF currentProtocol = proto THEN "match" ELSE "mismatch"), ""),
                 Event("debug", "current_script_version", "")>> \o
               (IF loadTime # 0 /\ ~page.paypalDomain
                THEN <<Event("debug", "current_script_time", ""),
                       Event("debug", "current_script_time_" \o ToString(loadTime \div 1000), "")>>
                ELSE <<>>) \o
               <<Event("track", "script_load", "")>>
    /\ pc' = "idle"
    /\ UNCHANGED <<pageVars, reporterVars, config, logLevel, setLogLevelCalls,
                   called, currentScript, ret, calls, last>>

\* else { $logger.track(...) ... setup() }
LoadWithoutScript ==
    /\ pc = "loadBranch"
    /\ currentScript = 0
    /\ logs' = logs \o
         <<Event("track", "script_load", ""),
           Event("debug", "no_current_script", ""),
           Event("debug", "no_current_script_version", "")>> \o
         (IF docCurrentScript
          THEN <<Event("debug", "current_script_not_recognized", "")>> ELSE <<>>)
    /\ setup(NoOptions, "idle")
    /\ UNCHANGED <<pageVars, reporterVars, currentScript, calls>>

\* --------------------------------------------------------------- the host
\* the values the host passes for each option
EnvOptions == {None, "", "production", "bogus"}
StageOptions == {None, "stage2"}
ApiStageOptions == {None, "api2"}
StateOptions == {None, "demo"}
PpobjectsOptions == {None, BoolFalse, BoolTrue}
LogLevelOptions == {None, "debug"}

HostOptions ==
    [env : EnvOptions, stage : StageOptions, apiStage : ApiStageOptions,
     state : StateOptions, ppobjects : PpobjectsOptions, logLevel : LogLevelOptions]

\* the options the host passes where the other fields do not matter
MainOptions ==
    [env : EnvOptions, stage : StageOptions, apiStage : {None}, state : {None},
     ppobjects : {None}, logLevel : LogLevelOptions]

\* the host page calls setup(options)
HostSetup(options) ==
    /\ pc = "idle"
    /\ calls < MaxCalls
    /\ calls' = calls + 1
    /\ setup(options, "idle")
    /\ UNCHANGED <<pageVars, reporterVars, currentScript, logs>>

\* the host page calls init()
HostInit ==
    /\ pc = "idle"
    /\ calls < MaxCalls
    /\ calls' = calls + 1
    /\ init("idle")
    /\ last' = [op |-> "init", options |-> NoOptions, threw |-> FALSE,
                 prevThrew |-> last.threw]
    /\ UNCHANGED <<pageVars, reporterVars, config, logLevel, setLogLevelCalls,
                   currentScript, logs>>

\* init() is called again while the body of the initializer is running
ReentrantInit ==
    /\ pc \in InitPcs
    /\ calls < MaxCalls
    /\ calls' = calls + 1
    /\ init(pc)
    /\ last' = [op |-> "init", options |-> NoOptions, threw |-> FALSE,
                 prevThrew |-> last.threw]
    /\ UNCHANGED <<pageVars, reporterVars, config, logLevel, setLogLevelCalls,
                   currentScript, logs>>

\* ------------------------------------------------ unhandled-rejection reporter
\* what the handler given to ZalgoPromise.onPossiblyUnhandledException
\* calls on $logger, in order
onPossiblyUnhandledException(err) ==
    <<Event("error", "unhandled_error", err),
      Event("track", "checkoutjs_error", err),
      Event("flush", "flush", "")>>

\* err2.stack || err2.toString() throws a TypeError when err2 is undefined
FormatThrows(err2) == err2 = None

\* one console method called with the flush error: what is written, what is caught
consoleWrite(method, behaviour, err2) ==
    IF FormatThrows(err2) THEN [written |-> <<>>, caught |-> <<"TypeError">>]
    ELSE IF behaviour = "throws" THEN [written |-> <<>>, caught |-> <<"console_error">>]
    ELSE [written |-> <<Event(method, "Error flushing:", err2)>>, caught |-> <<>>]

\* the catch handler that flushes again after the console write
flushCatch_retries(err2) ==
    IF ~console.present THEN [written |-> <<Event("flush", "flush", "")>>, scheduled |-> <<>>]
    ELSE
      LET w == IF console.error # "absent"
               THEN consoleWrite("console.error", console.error, err2)
               ELSE IF console.log # "absent"
               THEN consoleWrite("console.log", console.log, err2)
               ELSE [written |-> <<>>, caught |-> <<>>]
      IN  [written |-> w.written \o <<Event("flush", "flush", "")>>, scheduled |-> w.caught]

\* the catch handler whose timer throws err2 instead of err3
flushCatch_rethrowsFlushError(err2) ==
    IF ~console.present THEN [written |-> <<>>, scheduled |-> <<>>]
    ELSE
      LET w == IF console.error # "absent"
               THEN consoleWrite("console.error", console.error, err2)
               ELSE IF console.log # "absent"
               THEN consoleWrite("console.log", console.log, err2)
               ELSE [written |-> <<>>, caught |-> <<>>]
      IN  [written |-> w.written,
           scheduled |-> IF w.caught # <<>> THEN <<err2>> ELSE <<>>]

\* the handler given to $logger.flush().catch: the console write it makes and
\* the errors its catch block hands to setTimeout(() => { throw err3 }, 1)
flushCatch(err2) ==
    IF ~console.present THEN [written |-> <<>>, scheduled |-> <<>>]
    ELSE
      LET w == IF console.error # "absent"
               THEN consoleWrite("console.error", console.error, err2)
               ELSE IF console.log # "absent"
               THEN consoleWrite("console.log", console.log, err2)
               ELSE [written |-> <<>>, caught |-> <<>>]
      IN  [written |-> w.written, scheduled |-> w.caught]

\* how the console fallback of a flush rejection ended
Fallback(err2) ==
    IF flushCatch(err2).written # <<>> THEN "written"
    ELSE IF ~console.present \/ (console.error = "absent" /\ console.log = "absent")
    THEN "none"
    ELSE "threw"

mainVars == <<config, logLevel, setLogLevelCalls, called, currentScript, pc, ret, calls, last>>

\* the errors of unobserved failures
Errors == {"Error: boom", "TypeError: x is undefined"}

\* what flush() rejects with
FlushErrors == {"flush_error", None}

\* an asynchronous failure nobody observed is handed to the handler
Deliver(err) ==
    /\ pc = "idle"
    /\ failures < MaxFailures
    /\ failures' = failures + 1
    /\ logs' = logs \o onPossiblyUnhandledException(err)
    /\ pending' = pending + 1
    /\ UNCHANGED <<pageVars, mainVars, console, rejected, timers, uncaught>>

\* a flush promise resolves
FlushResolve ==
    /\ pc = "idle"
    /\ pending > 0
    /\ pending' = pending - 1
    /\ UNCHANGED <<pageVars, mainVars, logs, console, rejected, timers, uncaught, failures>>

\* a flush promise rejects with err2 and the catch handler runs
FlushReject(err2) ==
    /\ pc = "idle"
    /\ pending > 0
    /\ pending' = pending - 1
    /\ logs' = logs \o flushCatch(err2).written
    /\ timers' = timers \o flushCatch(err2).scheduled
    /\ rejected' = Append(rejected, [err2 |-> err2, fallback |-> Fallback(err2)])
    /\ UNCHANGED <<pageVars, mainVars, console, uncaught, failures>>

\* a timer callback runs: () => { throw err3 }
TimerFire ==
    /\ pc = "idle"
    /\ timers # <<>>
    /\ uncaught' = Append(uncaught, Head(timers))
    /\ timers' = Tail(timers)
    /\ UNCHANGED <<pageVars, mainVars, logs, console, pending, rejected, failures>>

\* ------------------------------------------------------------ the pages
\* a script element: its src as pieces (<<>> when it has none), whether it
\* carries data-paypal-checkout, and its data- attributes
Script(src, marker, env, stage, apiStage, state, level) ==
    [src |-> src, marker |-> marker, env |-> env, stage |-> stage,
     apiStage |-> apiStage, state |-> state, logLevel |-> level]

Plain(src, marker) == Script(src, marker, None, None, None, None, None)

SdkSrc == <<"https">> \o scriptUrl
OtherSrc == <<"https", "//merchant.example.com/", "app.js">>

Srcs ==
    { <<>>,
      SdkSrc,
      <<"http">> \o scriptUrl \o <<"?", "v=4">>,
      <<"file">> \o scriptUrl,
      <<"https", "//cdn.example.com/", LegacyName>>,
      OtherSrc \o <<"?", LegacyName>>,
      OtherSrc }

\* sequences of at most n elements of S
RECURSIVE SeqsUpTo(_, _)
SeqsUpTo(S, n) ==
    IF n = 0 THEN {<<>>}
    ELSE LET shorter == SeqsUpTo(S, n - 1)
         IN  shorter \cup {Append(q, x) : q \in shorter, x \in S}

Documents == SeqsUpTo({Plain(src, m) : src \in Srcs, m \in BOOLEAN}, MaxScripts)

\* the script tags an embedding page gives this file
SdkTags ==
    {Plain(SdkSrc, FALSE),
     Script(SdkSrc, FALSE, "sandbox", "stage1", None, None, "info"),
     Script(SdkSrc, FALSE, "bogus", "stage1", None, None, "info"),
     Script(<<>>, TRUE, "sandbox", None, "api1", "test", None)}

MainDocuments ==
    {<<>>, <<Plain(OtherSrc, FALSE)>>}
    \cup {<<Plain(OtherSrc, FALSE), tag>> : tag \in SdkTags}

KnownUrls ==
    <<<<"production", "https://www.paypal.com">>,
      <<"sandbox", "https://www.sandbox.paypal.com">>,
      <<"test", "http://localhost:9876">>>>

Locations ==
    {[scheme |-> "https", host |-> "www.sandbox.paypal.com"],
     [scheme |-> "http", host |-> "localhost:9876"],
     [scheme |-> "http", host |-> "merchant.example.com"]}

\* what isEligible(), isPayPalDomain(), getDomainSetting('force_bridge') and
\* bridge evaluate to on the page
Page(eligible, paypalDomain, forceBridge, bridge) ==
    [eligible |-> eligible, paypalDomain |-> paypalDomain,
     forceBridge |-> forceBridge, bridge |-> bridge]

Pages == [eligible : BOOLEAN, paypalDomain : BOOLEAN, forceBridge : BOOLEAN, bridge : BOOLEAN]

ConsoleShapes ==
    {[present |-> FALSE, error |-> "absent", log |-> "absent"]}
    \cup [present : {TRUE}, error : {"absent", "ok", "throws"}, log : {"absent", "ok", "throws"}]

\* the state when the file starts to run
InitProgram ==
    /\ config = DefaultConfig
    /\ logLevel = None
    /\ setLogLevelCalls = 0
    /\ called = FALSE
    /\ currentScript = 0
    /\ pc = "setDomainEnv"
    /\ ret = "idle"
    /\ logs = <<>>
    /\ calls = 0
    /\ last = [op |-> "none", options |-> NoOptions, threw |-> FALSE, prevThrew |-> FALSE]
    /\ pending = 0
    /\ rejected = <<>>
    /\ timers = <<>>
    /\ uncaught = <<>>
    /\ failures = 0

\* the pages of the main specification
Init ==
    /\ location \in Locations
    /\ paypalUrls = KnownUrls
    /\ scripts \in MainDocuments
    /\ docCurrentScript \in BOOLEAN
    /\ page \in Pages
    /\ console = [present |-> TRUE, error |-> "ok", log |-> "ok"]
    /\ InitProgram

Load ==
    \/ LoadSetDomainEnv
    \/ LoadGetCurrentScript
    \/ LoadWithScript
    \/ LoadWithoutScript
    \/ LoadTail

InitRun ==
    \/ InitEligible
    \/ InitCommon
    \/ InitPptm
    \/ InitLogger
    \/ InitBridge
    \/ InitInfo
    \/ InitDebug

Next ==
    \/ Load
    \/ InitRun
    \/ \E options \in MainOptions : HostSetup(options)
    \/ HostInit
    \/ ReentrantInit

Spec == Init /\ [][Next]_vars

\* ---- the configuration builder under every combination of options
MerchantLocation == [scheme |-> "http", host |-> "merchant.example.com"]

\* a page without script tag, one whose tag names an unknown env, one whose
\* tag names sandbox
ConfigureDocuments ==
    {<<>>,
     <<Script(SdkSrc, FALSE, "bogus", "stage1", None, None, "info")>>,
     <<Script(SdkSrc, FALSE, "sandbox", "stage1", None, None, "info")>>}

InitConfigure ==
    /\ location = MerchantLocation
    /\ paypalUrls = KnownUrls
    /\ scripts \in ConfigureDocuments
    /\ docCurrentScript = TRUE
    /\ page = Page(TRUE, FALSE, TRUE, TRUE)
    /\ console = [present |-> TRUE, error |-> "ok", log |-> "ok"]
    /\ InitProgram

NextConfigure ==
    \/ Load
    \/ InitRun
    \/ \E options \in HostOptions : HostSetup(options)
    \/ HostInit
    \/ ReentrantInit

SpecConfigure == InitConfigure /\ [][NextConfigure]_vars

\* ---- the environment resolver under every mapping and origin
EnvNames == {"local", "production", "sandbox", "test"}

Domains == {"https://www.paypal.com", "https://www.sandbox.paypal.com", "http://localhost:9876"}

\* the mappings of at most n keys, in every key order
RECURSIVE UrlsUpTo(_)
UrlsUpTo(n) ==
    IF n = 0 THEN {<<>>}
    ELSE LET shorter == UrlsUpTo(n - 1)
         IN  shorter \cup
             {Append(m, <<env, domain>>) :
                 m \in shorter,
                 env \in EnvNames,
                 domain \in Domains}

DistinctKeys(urls) ==
    \A i, j \in 1..Len(urls) : urls[i][1] = urls[j][1] => i = j

Mappings == {urls \in UrlsUpTo(MaxEnvs) : DistinctKeys(urls)}

EnvLocations ==
    {[scheme |-> "https", host |-> "www.paypal.com"],
     [scheme |-> "https", host |-> "www.sandbox.paypal.com"],
     [scheme |-> "http", host |-> "localhost:9876"],
     MerchantLocation}

InitEnv ==
    /\ location \in EnvLocations
    /\ paypalUrls \in Mappings
    /\ scripts = <<>>
    /\ docCurrentScript = FALSE
    /\ page = Page(TRUE, TRUE, FALSE, FALSE)
    /\ console = [present |-> TRUE, error |-> "ok", log |-> "ok"]
    /\ InitProgram

NextEnv == LoadSetDomainEnv

SpecEnv == InitEnv /\ [][NextEnv]_vars

\* ---- the script-tag locator and the load under every document
InitScript ==
    /\ location = MerchantLocation
    /\ paypalUrls = KnownUrls
    /\ scripts \in Documents
    /\ docCurrentScript \in BOOLEAN
    /\ page = Page(TRUE, FALSE, TRUE, TRUE)
    /\ console = [present |-> TRUE, error |-> "ok", log |-> "ok"]
    /\ InitProgram

NextScript == Load \/ InitRun

SpecScript == InitScript /\ [][NextScript]_vars

\* ---- the unhandled-rejection reporter under every console
InitReporter ==
    /\ location = MerchantLocation
    /\ paypalUrls = KnownUrls
    /\ scripts \in {<<>>, <<Plain(SdkSrc, FALSE)>>}
    /\ docCurrentScript = TRUE
    /\ page = Page(TRUE, FALSE, TRUE, TRUE)
    /\ console \in ConsoleShapes
    /\ InitProgram

Report ==
    \/ \E err \in Errors : Deliver(err)
    \/ FlushResolve
    \/ \E err2 \in FlushErrors : FlushReject(err2)
    \/ TimerFire

NextReporter == Load \/ InitRun \/ Report

SpecReporter == InitReporter /\ [][NextReporter]_vars

\* ======================================================== the properties
\* how many entries of logs have this event name / this level
Logged(event) == Len(SelectSeq(logs, LAMBDA e : e.event = event))
LoggedAt(level) == Len(SelectSeq(logs, LAMBDA e : e.level = level))

\* the initializer has been invoked and no body of it is running
InitializerDone == called /\ pc \notin InitPcs

BridgeWanted == page.forceBridge /\ page.bridge /\ ~page.paypalDomain

\* C1: however often the initializer is invoked (init(), setup(), at load,
\* re-entrantly), each step of its body has run at most once, and once the
\* first invocation has returned each step has run exactly once if its
\* condition held on the page and not at all otherwise.
C1_SideEffectsOnce ==
    /\ Logged("ineligible") <= 1
    /\ Logged("checkForCommonErrors") <= 1
    /\ Logged("createPptmScript") <= 1
    /\ Logged("initLogger") <= 1
    /\ Logged("openBridge") <= 1
    /\ LoggedAt("info") <= 1
    /\ Logged("current_protocol_" \o currentProtocol) <= 1
    /\ ~called =>
         /\ Logged("checkForCommonErrors") = 0
         /\ Logged("initLogger") = 0
         /\ LoggedAt("info") = 0
    /\ InitializerDone =>
         /\ Logged("ineligible") = (IF page.eligible THEN 0 ELSE 1)
         /\ Logged("checkForCommonErrors") = 1
         /\ Logged("createPptmScript") = (IF page.paypalDomain THEN 0 ELSE 1)
         /\ Logged("initLogger") = 1
         /\ Logged("openBridge") = (IF BridgeWanted THEN 1 ELSE 0)
         /\ LoggedAt("info") = 1
         /\ Logged("current_protocol_" \o currentProtocol) = 1

\* the initializer has been invoked at load and twice more, the last time by init()
C1_Witness ==
    /\ InitializerDone
    /\ pc = "idle"
    /\ calls >= 2
    /\ last.op = "init"
    /\ Logged("initLogger") = 1
    /\ Logged("openBridge") = 1

\* this step is a call of setup: the one made at load or one made by the host
SetupCall ==
    /\ last'.op = "setup"
    /\ \/ pc = "loadBranch"
       \/ pc = "idle" /\ calls' = calls + 1

\* env is given and is no key of config.paypalUrls
UnknownOverride(env) ==
    /\ Truthy(env)
    /\ \A i \in 1..Len(paypalUrls) : paypalUrls[i][1] # env

C8_Original ==
    [][SetupCall =>
         LET o == last'.options
         IN  /\ setLogLevelCalls' = setLogLevelCalls + 1
             /\ logLevel' = (IF o.logLevel # None THEN o.logLevel ELSE config.logLevel)
             /\ o.env # None => config'.env = o.env
             /\ o.stage # None => config'.stage = o.stage
             /\ o.apiStage # None => config'.apiStage = o.apiStage
             /\ o.state # None => config'.state = o.state
             /\ o.ppobjects # None => config'.ppobjects = o.ppobjects]_vars

\* C8 amended: a call of the configuration builder that throws Invalid env
\* sets no log level and writes no field; every other call sets a log level
\* exactly once (the logLevel option when truthy, else config.logLevel),
\* overwrites env, stage, apiStage and state with the option when the option
\* is truthy, sets ppobjects to true when the option is truthy, and leaves
\* the field of every falsy option as it was.
C8_ConfigureApplies ==
    [][SetupCall =>
         LET o == last'.options
         IN  IF last'.threw
             THEN UNCHANGED <<config, logLevel, setLogLevelCalls>>
             ELSE /\ setLogLevelCalls' = setLogLevelCalls + 1
                  /\ logLevel' = (IF Truthy(o.logLevel) THEN o.logLevel ELSE config.logLevel)
                  /\ config'.env = (IF Truthy(o.env) THEN o.env ELSE config.env)
                  /\ config'.stage = (IF Truthy(o.stage) THEN o.stage ELSE config.stage)
                  /\ config'.apiStage =
                        (IF Truthy(o.apiStage) THEN o.apiStage ELSE config.apiStage)
                  /\ config'.state = (IF Truthy(o.state) THEN o.state ELSE config.state)
                  /\ config'.ppobjects =
                        (IF Truthy(o.ppobjects) THEN BoolTrue ELSE config.ppobjects)
                  /\ config'.logLevel = config.logLevel]_vars

\* the host has called setup with ppobjects false, an empty env and a stage:
\* ppobjects is still true, env is still what it was, stage is the option
C8_Witness ==
    /\ last.op = "setup"
    /\ calls >= 1
    /\ ~last.threw
    /\ last.options.ppobjects = BoolFalse /\ config.ppobjects = BoolTrue
    /\ last.options.env = "" /\ config.env = "sandbox"
    /\ last.options.stage = "stage2" /\ config.stage = "stage2"
    /\ last.options.apiStage = "api2" /\ config.apiStage = "api2"
    /\ last.options.logLevel = None /\ logLevel = config.logLevel

\* C10: a call of setup that throws Invalid env changes no config field, not
\* the log level, not the flag of once() and performs no step of the
\* initializer; a call of setup that does not throw while the initializer is
\* not-run starts it, and it then has run exactly once.
C10_ThrowChangesNothing ==
    [][/\ SetupCall /\ last'.threw
            => UNCHANGED <<config, logLevel, setLogLevelCalls, called, logs>>
       /\ SetupCall /\ ~last'.threw /\ ~called
            => called' /\ pc' = InitBody[1]
       /\ (InitializerDone => Logged("initLogger") = 1 /\ LoggedAt("info") = 1)']_vars

\* setup threw at load and threw again for the host, the initializer still
\* not-run; the host's next call of setup, with valid options, ran it once
C10_Witness ==
    /\ last.op = "setup"
    /\ ~last.threw
    /\ last.prevThrew
    /\ calls = 2
    /\ setLogLevelCalls = 1
    /\ InitializerDone
    /\ pc = "idle"
    /\ Logged("initLogger") = 1

\* the initializer has logged setup_<env>, for which it read config.env
ConfigRead == LoggedAt("info") >= 1

\* C9 as stated: no field of config changes once the initializer has read
\* config.env.
C9_Original == [][ConfigRead => config' = config]_vars

\* positions at which setDomainEnv or the configure of a setup call runs
ConfigurePcs == {"setDomainEnv", "loadBranch", "idle"}

\* while the body of the initializer runs, config.env is the valid override
\* of the setup call that started it, and what setup_<env> reported
ReadsWhatWasConfigured ==
    pc \in InitPcs =>
      /\ last.op = "setup" /\ ~last.threw /\ Truthy(last.options.env)
           => config.env = last.options.env
      /\ \A i \in 1..Len(logs) : logs[i].level = "info" => logs[i].arg = config.env

\* C9 amended: config is written only by setDomainEnv at load and by the
\* configure of a setup call, never while the body of the initializer runs;
\* in the call that runs the initializer the write of config.env precedes
\* its reads.  (A later call of setup still writes config after the read.)
C9_WritesOnlyInConfigure ==
    [][/\ config' # config => pc \in ConfigurePcs
       /\ ReadsWhatWasConfigured']_vars

\* the initializer reported setup_sandbox, and a later call of setup by the
\* host made config.env production
C9_Witness ==
    /\ pc = "idle"
    /\ calls >= 1
    /\ \E i \in 1..Len(logs) : logs[i].level = "info" /\ logs[i].arg = "sandbox"
    /\ config.env = "production"
    /\ last.op = "setup" /\ last.options.env = "production"

\* the environments other than 'test' whose domain is the page origin
NonTestMatches ==
    {paypalUrls[i][1] : i \in {k \in 1..Len(paypalUrls) :
                                 paypalUrls[k][2] = Origin /\ paypalUrls[k][1] # "test"}}

OriginKnown == \E i \in 1..Len(paypalUrls) : paypalUrls[i][2] = Origin

SetDomainEnvRan == pc = "getCurrentScript"

\* C3 as stated: for every origin and mapping, an origin equal to the domain
\* of an environment other than 'test' makes config.env that environment's
\* name; an origin equal to no domain leaves config.env as it was.
C3_Original ==
    SetDomainEnvRan =>
      /\ NonTestMatches # {} => config.env \in NonTestMatches
      /\ ~OriginKnown => config.env = DefaultConfig.env

\* the first key, in key order, whose domain is the page origin
FirstMatch ==
    LET hits == {k \in 1..Len(paypalUrls) : paypalUrls[k][2] = Origin}
    IN  paypalUrls[CHOOSE k \in hits : \A j \in hits : k <= j][1]

\* C3 amended: config.env becomes the first environment, in the key order of
\* the mapping, whose domain is the page origin, if that one is not 'test';
\* if it is 'test', or no domain is the origin, config.env is left as it was.
C3_FirstMatchWins ==
    SetDomainEnvRan =>
      config.env = (IF OriginKnown /\ FirstMatch # "test"
                    THEN FirstMatch ELSE DefaultConfig.env)

\* two environments share the origin as domain and the first of them won
C3_Witness ==
    /\ SetDomainEnvRan
    /\ Len(paypalUrls) = 3
    /\ paypalUrls[2][2] = Origin /\ paypalUrls[3][2] = Origin
    /\ paypalUrls[1][2] # Origin
    /\ paypalUrls[2][1] = "sandbox"
    /\ config.env = "sandbox"

\* the three heuristics, as the claim words them
HeuristicUrl(script) == beforeQuery(stripProtocol(script.src)) = scriptUrl
HeuristicMarker(script) == script.marker
HeuristicLegacy(script) == \E i \in 1..Len(script.src) : script.src[i] = LegacyName

Recognized(script) ==
    HeuristicUrl(script) \/ HeuristicMarker(script) \/ HeuristicLegacy(script)

NoneRecognized == \A i \in 1..Len(scripts) : ~Recognized(scripts[i])

LocatorRan == pc \notin {"setDomainEnv", "getCurrentScript"}

\* C4: getCurrentScript returns the first script element, in document order,
\* that satisfies one of the three heuristics, and no value exactly when no
\* script element satisfies any.
C4_FirstRecognized ==
    LocatorRan =>
      /\ currentScript = 0 <=> NoneRecognized
      /\ currentScript # 0 =>
           /\ currentScript \in 1..Len(scripts)
           /\ Recognized(scripts[currentScript])
           /\ \A j \in 1..(currentScript - 1) : ~Recognized(scripts[j])

\* the second of two script elements was returned: it has the marker and no
\* src, the first one is not recognized
C4_Witness ==
    /\ LocatorRan
    /\ currentScript = 2
    /\ scripts[2].marker /\ scripts[2].src = <<>>
    /\ scripts[1].src = <<"file">> \o scriptUrl

NotRecognizedLogs == Logged("current_script_not_recognized")

\* C5 as stated: with no recognized script element the locator returns no
\* value and, counting the whole load and whatever document.currentScript
\* is, current_script_not_recognized is logged exactly once.
C5_Original ==
    pc = "idle" /\ NoneRecognized => currentScript = 0 /\ NotRecognizedLogs = 1

\* C5 amended: with no recognized script element the locator returns no
\* value and logs current_script_not_recognized once if
\* document.currentScript is set and not at all if it is null; the load then
\* logs it a second time under the same condition, so that the whole load
\* logs it twice or not at all.
C5_LoggedPerCurrentScript ==
    LocatorRan /\ NoneRecognized =>
      /\ currentScript = 0
      /\ pc = "loadBranch" => NotRecognizedLogs = (IF docCurrentScript THEN 1 ELSE 0)
      /\ pc # "loadBranch" => NotRecognizedLogs = (IF docCurrentScript THEN 2 ELSE 0)

\* the load has ended on a page with unrecognized script elements and a
\* document.currentScript, and the event was logged twice
C5_Witness ==
    /\ pc = "idle"
    /\ Len(scripts) = 2
    /\ NoneRecognized
    /\ docCurrentScript
    /\ currentScript = 0
    /\ NotRecognizedLogs = 2

\* the calls the unhandled-rejection handler makes on $logger
ReporterCalls ==
    SelectSeq(logs, LAMBDA e : e.event \in {"unhandled_error", "checkoutjs_error", "flush"})

\* C6: each failure handed to the unhandled-rejection handler makes exactly
\* one error log, one tracking event and one flush, in that order, whether
\* the flush resolves or rejects; a rejected flush is never flushed again.
C6_OneReportPerFailure ==
    /\ Len(ReporterCalls) = 3 * failures
    /\ \A k \in 1..failures :
         /\ ReporterCalls[3 * k - 2].level = "error"
         /\ ReporterCalls[3 * k - 1].level = "track"
         /\ ReporterCalls[3 * k].level = "flush"
         /\ ReporterCalls[3 * k - 2].arg = ReporterCalls[3 * k - 1].arg
    /\ pending + Len(rejected) <= failures

\* two failures were reported; one flush resolved, one rejected with a
\* console that throws
C6_Witness ==
    /\ failures = 2
    /\ pending = 0
    /\ Len(rejected) = 1
    /\ rejected[1].fallback = "threw"
    /\ Len(ReporterCalls) = 6

\* the flush rejections whose console fallback did not write
NotWritten == SelectSeq(rejected, LAMBDA r : r.fallback # "written")

\* the flush rejections whose console fallback threw
Threw == SelectSeq(rejected, LAMBDA r : r.fallback = "threw")

\* C7 as stated: when the flush rejects and the console fallback does not
\* succeed, the error the flush rejected with is thrown on a later turn: once
\* every timer has run, the errors thrown are those flush errors.
C7_Original ==
    timers = <<>> => uncaught = [i \in 1..Len(NotWritten) |-> NotWritten[i].err2]

\* what the try block of the catch handler throws for a flush error
ThrownInTry(err2) == IF err2 = None THEN "TypeError" ELSE "console_error"

\* C7 amended: when the flush rejects and the console write throws, the
\* error thrown by the console write (err3), not the error the flush rejected
\* with, is thrown from a timer on a later turn; when window.console is
\* absent or has neither error nor log, nothing is written and nothing is
\* thrown.
C7_ConsoleErrorRethrown ==
    /\ uncaught \o timers = [i \in 1..Len(Threw) |-> ThrownInTry(Threw[i].err2)]
    /\ \A i \in 1..Len(uncaught) : uncaught[i] \notin FlushErrors

\* a flush rejected, console.error threw, and the timer has thrown the
\* console's error
C7_Witness ==
    /\ timers = <<>>
    /\ Len(rejected) = 1
    /\ rejected[1].err2 = "flush_error"
    /\ rejected[1].fallback = "threw"
    /\ uncaught = <<"console_error">>

====
